---- MODULE Spec2Model ----
(***************************************************************************)
(* E-shop backend (Express + Mongoose): the order workflow, the catalog    *)
(* writes it reads from, the user directory and the access gate.           *)
(*                                                                         *)
(* Documents live in collections modelled as functions from ids to         *)
(* documents; a document exists iff its id is in the DOMAIN.  ObjectIds    *)
(* are positive integers (order items: pairs); 0 stands for a path         *)
(* parameter that is not a well-formed ObjectId.  An async handler is a    *)
(* process whose steps are the store operations it awaits: other requests  *)
(* interleave between two awaits of one handler.                           *)
(***************************************************************************)
EXTENDS Integers, Sequences, FiniteSets, TLC

\* ------------------------------------------------------------------ bounds
\* products created per behaviour, on top of the initial catalog
MaxNewProduct == 1
\* users created per behaviour
MaxUser == 2
\* createOrder requests per behaviour (each allocates one Order id)
MaxCreate == 2
\* deleteOrder requests per behaviour
MaxDelete == 2
\* cart lines per createOrder
MaxCart == 2
\* product documents in the catalog
MaxProduct == 2

CoReqs == 1..MaxCreate
DelReqs == 1..MaxDelete
ProductIds == 1..MaxProduct
\* 0: malformed id; MaxCreate + 1: well-formed, never allocated
OrderIdInputs == 0..(MaxCreate + 1)
Quantities == {1, 2}
Statuses == {"Pending", "Shipped"}

\* ----------------------------------------------------- collection helpers
Put(f, k, v) == [x \in (DOMAIN f) \cup {k} |-> IF x = k THEN v ELSE f[x]]
Remove(f, k) == [x \in (DOMAIN f) \ {k} |-> f[x]]
Empty == [x \in {} |-> 0]

\* mongoose.isValidObjectId / the cast findById* applies to its id
isValidObjectId(id) == id # 0

\* ------------------------------------------------------------- JS numbers
\* A JS number is NaN or a value.
Num(n) == [nan |-> FALSE, v |-> n]
NaN == [nan |-> TRUE, v |-> 0]
JsMul(a, b) == IF a.nan \/ b.nan THEN NaN ELSE Num(a.v * b.v)
JsAdd(a, b) == IF a.nan \/ b.nan THEN NaN ELSE Num(a.v + b.v)

\* ---------------------------------------------- strings (price: String)
\* A string is a sequence of characters.
Digits == <<"0", "1", "2", "3", "4", "5", "6", "7", "8", "9">>
DigitChar(d) == Digits[d + 1]
IsDigit(c) == \E d \in 0..9 : DigitChar(d) = c
DigitVal(c) == CHOOSE d \in 0..9 : DigitChar(d) = c

RECURSIVE NatToString(_)
NatToString(n) ==
    IF n < 10 THEN <<DigitChar(n)>>
    ELSE Append(NatToString(n \div 10), DigitChar(n % 10))

RECURSIVE DigitsValue(_)
DigitsValue(s) ==
    IF s = <<>> THEN 0
    ELSE 10 * DigitsValue(SubSeq(s, 1, Len(s) - 1)) + DigitVal(s[Len(s)])

\* JS ToNumber on a string, as the * operator applies it
ToNumber(s) ==
    IF \A i \in 1..Len(s) : IsDigit(s[i]) THEN Num(DigitsValue(s)) ELSE NaN

\* A JSON scalar of a request body: a number or a string.
JNum(n) == [t |-> "num", n |-> n, s |-> <<>>]
JStr(s) == [t |-> "str", n |-> 0, s |-> s]

\* mongoose String cast of a body value (productSchema.price is a String)
CastString(j) == IF j.t = "num" THEN NatToString(j.n) ELSE j.s

\* ------------------------------------------------------------------ state
VARIABLES
    users,        \* User collection: id -> [email, passwordHash, isAdmin]
    seq,          \* ids handed out so far, per collection (new documents get fresh ids)
    categories,   \* Category collection: id -> document
    products,     \* Product collection: id -> [price, category, countInStock, isFeatured]
    orderItems,   \* OrderItem collection: <<request, line>> -> [quantity, product]
    orders,       \* Order collection: id -> [orderItems, totalPrice, status]
    co,           \* createOrder handlers: request -> position and locals
    dl,           \* deleteOrder handlers: request -> position and locals
    last          \* the last request answered by the gate or by a single-await handler

vars == <<users, seq, categories, products, orderItems, orders, co, dl, last>>

\* a request as the gate sees it: the endpoint and the bearer token
NoToken == [kind |-> "none", userId |-> 0, isAdmin |-> FALSE, sig |-> "", expired |-> FALSE]
Malformed == [kind |-> "malformed", userId |-> 0, isAdmin |-> FALSE, sig |-> "", expired |-> FALSE]
NoReq == [ep |-> "", token |-> NoToken]

\* a response: HTTP status and body; body is a tagged tuple
Resp(status, body) == [status |-> status, body |-> body]

IdleCo == [pc |-> "idle", cart |-> <<>>, ids |-> <<>>, saving |-> {},
           pricing |-> {}, totalPrices |-> <<>>, totalPrice |-> Num(0),
           status |-> "Pending", sent |-> <<>>, error |-> "none", hist |-> Empty]
IdleDl == [pc |-> "idle", id |-> 0, found |-> FALSE, ids |-> <<>>,
           removing |-> {}, storeError |-> FALSE, logged |-> {}, sent |-> <<>>]
NoLast == [req |-> NoReq, op |-> "none", id |-> 0, sent |-> <<>>, threw |-> FALSE]

\* productSchema: price is declared String, so a stored price is a string
Product(price, category, countInStock, isFeatured) ==
    [price |-> CastString(price), category |-> category,
     countInStock |-> countInStock, isFeatured |-> isFeatured]

\* the catalog the shop starts with: one category, every product priced
InitPrice(p) == IF p = 1 THEN JNum(10) ELSE JNum(5)
InitCatalog == [p \in ProductIds |-> Product(InitPrice(p), 1, 1, FALSE)]

\* ----------------------------------------------- createOrder, POST /orders
Line(product, quantity) == [product |-> product, quantity |-> quantity]
Lines == {Line(1, 2), Line(2, 1), Line(1, 1)}
Carts == UNION {[1..n -> Lines] : n \in 0..MaxCart}

\* ghost: the prices each product has held since the request started
HistStart == [p \in DOMAIN products |-> {ToNumber(products[p].price)}]
HistAdd(h, p, price) ==
    IF p \in DOMAIN h THEN [h EXCEPT ![p] = @ \cup {ToNumber(price)}] ELSE h
NoteWrite(c, p, price) ==
    [r \in CoReqs |-> IF c[r].pc \in {"saving", "pricing"}
                      THEN [c[r] EXCEPT !.hist = HistAdd(@, p, price)]
                      ELSE c[r]]

\* (mutant of ReduceSeed: the reduction starts from 1)
ReduceSeedOne == Num(1)
\* the initial value handed to reduce
ReduceSeed == Num(0)

\* totalPrices.reduce((a, b) => a + b, 0)
RECURSIVE Reduce(_)
Reduce(totalPrices) ==
    IF totalPrices = <<>> THEN ReduceSeed
    ELSE JsAdd(Reduce(SubSeq(totalPrices, 1, Len(totalPrices) - 1)),
               totalPrices[Len(totalPrices)])

\* (mutant of LineTotal: + for *)
LineTotalAdd(product, item) == JsAdd(ToNumber(product.price), Num(item.quantity))

\* orderItem.product.price * orderItem.quantity
LineTotal(product, item) == JsMul(ToNumber(product.price), Num(item.quantity))

\* (mutant of AfterSaves: the second Promise.all is not awaited)
AfterSavesNoPricing(n) == "ordering"
\* the position after both Promise.all have resolved for n lines
AfterSaves(n) == IF n = 0 THEN "ordering" ELSE "pricing"

\* the handler is entered: map() builds every OrderItem (ids are assigned
\* by the constructor) and starts every save; with no line both
\* Promise.all resolve with [] and the total is the reduction of []
CreateOrderStart(r, cart, status) ==
    /\ co[r].pc = "idle"
    /\ co' = [co EXCEPT ![r] =
                [IdleCo EXCEPT !.pc = IF Len(cart) = 0 THEN AfterSaves(0) ELSE "saving",
                               !.cart = cart,
                               !.ids = [i \in 1..Len(cart) |-> <<r, i>>],
                               !.saving = 1..Len(cart),
                               !.totalPrices = [i \in 1..Len(cart) |-> Num(0)],
                               !.totalPrice = IF Len(cart) = 0 THEN Reduce(<<>>) ELSE @,
                               !.status = status,
                               !.hist = HistStart]]
    /\ UNCHANGED <<users, seq, categories, products, orderItems, orders, dl, last>>

\* newOrderItem.save() resolves: the item is persisted.  A save started
\* before another line's save rejected still completes.
ItemSaveOk(r, i) ==
    /\ co[r].pc \in {"saving", "rejected"}
    /\ i \in co[r].saving
    /\ orderItems' = Put(orderItems, co[r].ids[i],
                         [quantity |-> co[r].cart[i].quantity,
                          product |-> co[r].cart[i].product])
    /\ LET left == co[r].saving \ {i} IN
       co' = [co EXCEPT ![r].saving = left,
                        ![r].pricing = IF co[r].pc = "saving" /\ left = {}
                                       THEN DOMAIN co[r].cart ELSE {},
                        ![r].pc = IF co[r].pc = "saving" /\ left = {}
                                  THEN AfterSaves(Len(co[r].cart)) ELSE @]
    /\ UNCHANGED <<users, seq, categories, products, orders, dl, last>>

\* newOrderItem.save() rejects: Promise.all rejects, the await throws and
\* the handler ends without sending a response
ItemSaveFail(r, i) ==
    /\ co[r].pc \in {"saving", "rejected"}
    /\ i \in co[r].saving
    /\ co' = [co EXCEPT ![r].saving = @ \ {i}, ![r].pc = "rejected",
                        ![r].error = IF @ = "none" THEN "itemSave" ELSE @]
    /\ UNCHANGED <<users, seq, categories, products, orderItems, orders, dl, last>>

\* OrderItem.findById(id).populate('product', 'price') resolves for line i
PriceResolve(r, i) ==
    /\ co[r].pc = "pricing"
    /\ i \in co[r].pricing
    /\ co[r].ids[i] \in DOMAIN orderItems
    /\ LET item == orderItems[co[r].ids[i]]
           left == co[r].pricing \ {i}
       IN  /\ item.product \in DOMAIN products
           /\ LET tp == [co[r].totalPrices EXCEPT
                            ![i] = LineTotal(products[item.product], item)]
              IN co' = [co EXCEPT ![r].totalPrices = tp,
                                  ![r].pricing = left,
                                  ![r].totalPrice = IF left = {} THEN Reduce(tp) ELSE @,
                                  ![r].pc = IF left = {} THEN "ordering" ELSE @]
    /\ UNCHANGED <<users, seq, categories, products, orderItems, orders, dl, last>>

\* populate leaves product null when the product is gone:
\* orderItem.product.price throws, the handler ends without a response
PriceResolveMissing(r, i) ==
    /\ co[r].pc = "pricing"
    /\ i \in co[r].pricing
    /\ co[r].ids[i] \in DOMAIN orderItems
    /\ orderItems[co[r].ids[i]].product \notin DOMAIN products
    /\ co' = [co EXCEPT ![r].pricing = {}, ![r].pc = "rejected",
                        ![r].error = "price"]
    /\ UNCHANGED <<users, seq, categories, products, orderItems, orders, dl, last>>

\* Order.totalPrice is numeric: the Number cast refuses NaN, so the save
\* of such an Order rejects with a validation error
OrderSchemaAccepts(order) == ~order.totalPrice.nan

\* (mutant of NewOrder: every line references the first OrderItem)
NewOrderFirstItem(c) ==
    [orderItems |-> [i \in 1..Len(c.ids) |-> c.ids[1]],
     totalPrice |-> c.totalPrice, status |-> c.status]
\* new Order({orderItems: orderItemsIds, ..., totalPrice, ...})
NewOrder(c) == [orderItems |-> c.ids, totalPrice |-> c.totalPrice, status |-> c.status]

\* order.save() resolves: the Order is persisted and sent back
OrderSaveOk(r) ==
    /\ co[r].pc = "ordering"
    /\ OrderSchemaAccepts(NewOrder(co[r]))
    /\ orders' = Put(orders, r, NewOrder(co[r]))
    /\ co' = [co EXCEPT ![r].pc = "done",
                        ![r].sent = Append(@, Resp(200, <<"order", r, NewOrder(co[r])>>))]
    /\ UNCHANGED <<users, seq, categories, products, orderItems, dl, last>>

\* (mutant of OrderSaveFail: the failure is compensated, the request's
\* OrderItems are removed again)
OrderSaveFailRollback(r) ==
    /\ co[r].pc = "ordering"
    /\ co' = [co EXCEPT ![r].pc = "rejected", ![r].error = "orderSave"]
    /\ orderItems' = [k \in {x \in DOMAIN orderItems : x[1] # r} |-> orderItems[k]]
    /\ UNCHANGED <<users, seq, categories, products, orders, dl, last>>

\* order.save() rejects (validation or store error): the await throws and
\* the handler ends without sending a response.  The branch
\* `if (!order) return res.status(400)...` is never taken: save() resolves
\* with the document or rejects.
OrderSaveFail(r) ==
    /\ co[r].pc = "ordering"
    /\ co' = [co EXCEPT ![r].pc = "rejected", ![r].error = "orderSave"]
    /\ UNCHANGED <<users, seq, categories, products, orderItems, orders, dl, last>>

\* --------------------------------------- deleteOrder, DELETE /orders/:id
OrderDeleted == Resp(200, <<"json", TRUE, "the order is deleted!">>)
\* (mutant of OrderNotFound: no document is answered like a failed removal)
OrderNotFoundAsError == Resp(400, <<"json", FALSE, "error">>)
\* (mutant of OrderNotFound: the else branch answers like the then branch)
OrderNotFoundAsDeleted == Resp(200, <<"json", TRUE, "the order is deleted!">>)
OrderNotFound == Resp(404, <<"json", FALSE, "order not found!">>)
DeleteError == Resp(400, <<"json", FALSE, "error">>)

\* (mutant of DeleteOrderStart: the Order is looked up, not removed)
DeleteOrderStartKeeps(d, id) ==
    /\ dl[d].pc = "idle"
    /\ IF ~isValidObjectId(id)
       THEN dl' = [dl EXCEPT ![d] = [IdleDl EXCEPT !.pc = "done", !.id = id,
                         !.sent = <<DeleteError>>]]
       ELSE IF id \notin DOMAIN orders
       THEN dl' = [dl EXCEPT ![d] = [IdleDl EXCEPT !.pc = "done", !.id = id,
                         !.sent = <<OrderNotFound>>]]
       ELSE LET order == orders[id]
                n == Len(order.orderItems)
            IN  dl' = [dl EXCEPT ![d] =
                            [IdleDl EXCEPT !.pc = IF n = 0 THEN "done" ELSE "removing",
                               !.id = id, !.found = TRUE,
                               !.ids = order.orderItems,
                               !.removing = 1..n,
                               !.sent = IF n = 0 THEN <<OrderDeleted>> ELSE <<>>]]
    /\ UNCHANGED <<users, seq, categories, products, orderItems, orders, co, last>>

\* Order.findByIdAndRemove(id) settles.  A malformed id rejects with a
\* cast error (.catch: 400); no document: 404; otherwise the Order is
\* removed and the removal of every referenced OrderItem is started.
DeleteOrderStart(d, id) ==
    /\ dl[d].pc = "idle"
    /\ IF ~isValidObjectId(id)
       THEN /\ dl' = [dl EXCEPT ![d] = [IdleDl EXCEPT !.pc = "done", !.id = id,
                         !.sent = <<DeleteError>>]]
            /\ UNCHANGED orders
       ELSE IF id \notin DOMAIN orders
       THEN /\ dl' = [dl EXCEPT ![d] = [IdleDl EXCEPT !.pc = "done", !.id = id,
                         !.sent = <<OrderNotFound>>]]
            /\ UNCHANGED orders
       ELSE LET order == orders[id]
                n == Len(order.orderItems)
            IN  /\ orders' = Remove(orders, id)
                /\ dl' = [dl EXCEPT ![d] =
                            [IdleDl EXCEPT !.pc = IF n = 0 THEN "done" ELSE "removing",
                               !.id = id, !.found = TRUE,
                               !.ids = order.orderItems,
                               !.removing = 1..n,
                               !.sent = IF n = 0
                                  THEN <<OrderDeleted>>
                                  ELSE <<>>]]
    /\ UNCHANGED <<users, seq, categories, products, orderItems, co, last>>

\* (mutant of ItemRemove: an OrderItem that is already gone aborts the
\* deletion like a store error)
ItemRemoveStrict(d, i) ==
    /\ dl[d].pc \in {"removing", "failed"}
    /\ i \in dl[d].removing
    /\ orderItems' = Remove(orderItems, dl[d].ids[i])
    /\ LET left == dl[d].removing \ {i}
           gone == dl[d].ids[i] \notin DOMAIN orderItems
           last1 == dl[d].pc = "removing" /\ left = {} /\ ~gone
       IN dl' = [dl EXCEPT ![d].removing = left,
                           ![d].pc = IF gone THEN "failed" ELSE IF last1 THEN "done" ELSE @,
                           ![d].sent = IF dl[d].pc = "removing" /\ gone
                              THEN Append(@, DeleteError)
                              ELSE IF last1 THEN Append(@, OrderDeleted) ELSE @]
    /\ UNCHANGED <<users, seq, categories, products, orders, co, last>>

\* OrderItem.findByIdAndRemove(orderItemId) resolves (with the removed item,
\* or with null when it was already gone, which is only logged); after the
\* last one the handler answers 200
ItemRemove(d, i) ==
    /\ dl[d].pc \in {"removing", "failed"}
    /\ i \in dl[d].removing
    /\ orderItems' = Remove(orderItems, dl[d].ids[i])
    /\ LET left == dl[d].removing \ {i}
           last1 == dl[d].pc = "removing" /\ left = {}
       IN dl' = [dl EXCEPT ![d].removing = left,
                           ![d].logged = IF dl[d].ids[i] \in DOMAIN orderItems
                                         THEN @ ELSE @ \cup {dl[d].ids[i]},
                           ![d].pc = IF last1 THEN "done" ELSE @,
                           ![d].sent = IF last1
                              THEN Append(@, OrderDeleted)
                              ELSE @]
    /\ UNCHANGED <<users, seq, categories, products, orders, co, last>>

\* (mutant of ItemRemoveFail: the rejection is caught per item and only
\* logged; after the last removal the handler answers 200)
ItemRemoveFailLogged(d, i) ==
    /\ dl[d].pc \in {"removing", "failed"}
    /\ i \in dl[d].removing
    /\ LET left == dl[d].removing \ {i}
           last1 == dl[d].pc = "removing" /\ left = {}
       IN dl' = [dl EXCEPT ![d].removing = left,
                           ![d].storeError = TRUE,
                           ![d].pc = IF last1 THEN "done" ELSE @,
                           ![d].sent = IF last1 THEN Append(@, OrderDeleted) ELSE @]
    /\ UNCHANGED <<users, seq, categories, products, orderItems, orders, co, last>>

\* OrderItem.findByIdAndRemove(orderItemId) rejects (store error):
\* Promise.all rejects, .catch answers 400; the removals already started
\* still run
ItemRemoveFail(d, i) ==
    /\ dl[d].pc \in {"removing", "failed"}
    /\ i \in dl[d].removing
    /\ dl' = [dl EXCEPT ![d].removing = @ \ {i},
                        ![d].pc = "failed",
                        ![d].storeError = TRUE,
                        ![d].sent = IF dl[d].pc = "removing"
                              THEN Append(@, DeleteError)
                              ELSE @]
    /\ UNCHANGED <<users, seq, categories, products, orderItems, orders, co, last>>

\* --------------------------------- updateOrderStatus, PUT /orders/:id
UpdateOrderStatus(id, status) ==
    /\ IF ~isValidObjectId(id)
       THEN /\ last' = [req |-> NoReq, op |-> "updateOrderStatus", id |-> id, sent |-> <<>>, threw |-> TRUE]
            /\ UNCHANGED orders
       ELSE IF id \notin DOMAIN orders
       THEN /\ last' = [req |-> NoReq, op |-> "updateOrderStatus", id |-> id, threw |-> FALSE,
                        sent |-> <<Resp(404, <<"text", "the order cannot be updated!">>)>>]
            /\ UNCHANGED orders
       ELSE /\ orders' = [orders EXCEPT ![id].status = status]
            /\ last' = [req |-> NoReq, op |-> "updateOrderStatus", id |-> id, threw |-> FALSE,
                        sent |-> <<Resp(200, <<"order", id, orders'[id]>>)>>]
    /\ UNCHANGED <<users, seq, categories, products, orderItems, co, dl>>

\* ------------------------------- totalSales, GET /orders/get/totalsales
\* Order.aggregate([{$group: {_id: null, totalsales: {$sum: '$totalPrice'}}}]):
\* one group document when there is an Order, no document otherwise
\* (mutant of SumTotals: $sum: 1, the number of Orders)
SumTotalsCount(os, ids) == Cardinality(ids)

RECURSIVE SumTotals(_, _)
SumTotals(os, ids) ==
    IF ids = {} THEN 0
    ELSE LET o == CHOOSE x \in ids : TRUE
         IN os[o].totalPrice.v + SumTotals(os, ids \ {o})

Aggregate(os) ==
    IF DOMAIN os = {} THEN <<>> ELSE <<[totalsales |-> SumTotals(os, DOMAIN os)]>>

\* `!totalSales` is false for every array, the empty one too; pop() of the
\* empty array is undefined and reading .totalsales of it throws
TotalSales ==
    /\ LET totalSales == Aggregate(orders) IN
       IF totalSales = <<>>
       THEN last' = [req |-> NoReq, op |-> "totalSales", id |-> 0, sent |-> <<>>, threw |-> TRUE]
       ELSE last' = [req |-> NoReq, op |-> "totalSales", id |-> 0, threw |-> FALSE,
                     sent |-> <<Resp(200, <<"totalSales",
                                  totalSales[Len(totalSales)].totalsales>>)>>]
    /\ UNCHANGED <<users, seq, categories, products, orderItems, orders, co, dl>>

\* ------------------------------------------ products, PUT /products/:id
PriceInputs == {JNum(5), JNum(10), JStr(<<"a", "b", "c">>)}
\* 0: not a well-formed ObjectId; 2: well-formed, no such Category
CategoryInputs == {0, 1, 2}
ProductIdInputs == 0..(MaxProduct + 1)
FileInputs == {"none", "image/png", "application/pdf"}
StockInputs == {-1, 1, 300}
ProductBody(price, category, countInStock, isFeatured) ==
    [price |-> price, category |-> category,
     countInStock |-> countInStock, isFeatured |-> isFeatured]
\* the bodies the order workflow is exercised with: the price varies
PriceBodies == {ProductBody(p, 1, 1, FALSE) : p \in PriceInputs}

\* (mutant of OrdersAfterProductWrite: totals are a live join, recomputed
\* from the written price)
OrdersRepriced(id, doc) ==
    [o \in DOMAIN orders |->
        LET its == orders[o].orderItems
            line(i) == IF its[i] \notin DOMAIN orderItems THEN Num(0)
                       ELSE LET item == orderItems[its[i]] IN
                            IF item.product = id THEN LineTotal(doc, item)
                            ELSE IF item.product \in DOMAIN products
                                 THEN LineTotal(products[item.product], item)
                                 ELSE Num(0)
        IN [orders[o] EXCEPT !.totalPrice = Reduce([i \in 1..Len(its) |-> line(i)])]]

\* Product.findByIdAndUpdate writes the Product document alone: an Order
\* keeps the totalPrice stored when it was created
OrdersAfterProductWrite(id, doc) == orders

\* The handler answers 400 for a malformed id without returning, so it
\* goes on; a second send on the same response throws.  Then
\* Category.findById, then Product.findByIdAndUpdate (which rejects on a
\* malformed id; so does Category.findById on a malformed category id).
\* The update runs no validators; values are cast.
UpdateProduct(id, body) ==
    LET first == IF ~isValidObjectId(id)
                 THEN <<Resp(400, <<"text", "Invalid Product Id">>)>> ELSE <<>>
        answered == first # <<>>
        done(resp) == [req |-> NoReq, op |-> "updateProduct", id |-> id, threw |-> answered,
                       sent |-> IF answered THEN first ELSE <<resp>>]
    IN
    /\ IF ~isValidObjectId(body.category)
       THEN /\ last' = [req |-> NoReq, op |-> "updateProduct", id |-> id, threw |-> TRUE, sent |-> first]
            /\ UNCHANGED <<products, orders, co>>
       ELSE IF body.category \notin DOMAIN categories
       THEN /\ last' = done(Resp(400, <<"text", "Invalid Category">>))
            /\ UNCHANGED <<products, orders, co>>
       ELSE IF ~isValidObjectId(id)
       THEN /\ last' = [req |-> NoReq, op |-> "updateProduct", id |-> id, threw |-> TRUE, sent |-> first]
            /\ UNCHANGED <<products, orders, co>>
       ELSE IF id \notin DOMAIN products
       THEN /\ last' = done(Resp(404, <<"text", "the product cannot be updated!">>))
            /\ UNCHANGED <<products, orders, co>>
       ELSE LET doc == Product(body.price, body.category,
                               body.countInStock, body.isFeatured)
            IN  /\ products' = [products EXCEPT ![id] = doc]
                /\ orders' = OrdersAfterProductWrite(id, doc)
                /\ co' = NoteWrite(co, id, doc.price)
                /\ last' = done(Resp(200, <<"product", id>>))
    /\ UNCHANGED <<users, seq, categories, orderItems, dl>>

\* ---------------------------------------------- products, POST /products
\* productSchema.countInStock: required, min 0, max 255 (checked by save)
MinStock == 0
MaxStock == 255
ProductValidates(doc) == doc.countInStock >= MinStock /\ doc.countInStock <= MaxStock

\* FILE_TYPE_MAP: the upload types the storage accepts
FileTypeOk(file) == file \in {"image/png", "image/jpeg", "image/jpg"}

\* uploadOptions.single('image') runs first: a file of another type is an
\* upload error, answered 500 by the framework before the handler.  Then
\* Category.findById (which rejects on a malformed category id), the file
\* check, and product.save(), which validates.
CreateProduct(body, file) ==
    LET served(sent, threw) ==
            [req |-> NoReq, op |-> "createProduct", id |-> 0, threw |-> threw, sent |-> sent]
        doc == Product(body.price, body.category, body.countInStock, body.isFeatured)
    IN
    /\ seq.products < MaxProduct + MaxNewProduct
    /\ IF file # "none" /\ ~FileTypeOk(file)
       THEN /\ last' = served(<<Resp(500, <<"text", "Invalid image type">>)>>, FALSE)
            /\ UNCHANGED <<products, seq>>
       ELSE IF ~isValidObjectId(body.category)
       THEN /\ last' = served(<<>>, TRUE)
            /\ UNCHANGED <<products, seq>>
       ELSE IF body.category \notin DOMAIN categories
       THEN /\ last' = served(<<Resp(400, <<"text", "Invalid Category">>)>>, FALSE)
            /\ UNCHANGED <<products, seq>>
       ELSE IF file = "none"
       THEN /\ last' = served(<<Resp(400, <<"text", "No image in the request">>)>>, FALSE)
            /\ UNCHANGED <<products, seq>>
       ELSE IF ~ProductValidates(doc)
       THEN /\ last' = served(<<>>, TRUE)
            /\ UNCHANGED <<products, seq>>
       ELSE /\ products' = Put(products, seq.products + 1, doc)
            /\ seq' = [seq EXCEPT !.products = @ + 1]
            /\ last' = [served(<<Resp(200, <<"product", seq.products + 1>>)>>, FALSE)
                           EXCEPT !.id = seq.products + 1]
    /\ UNCHANGED <<users, categories, orderItems, orders, co, dl>>

\* --------------------------------------- products, DELETE /products/:id
DeleteProduct(id) ==
    /\ IF ~isValidObjectId(id)
       THEN /\ last' = [req |-> NoReq, op |-> "deleteProduct", id |-> id, threw |-> FALSE,
                        sent |-> <<Resp(400, <<"json", FALSE, "error">>)>>]
            /\ UNCHANGED products
       ELSE IF id \notin DOMAIN products
       THEN /\ last' = [req |-> NoReq, op |-> "deleteProduct", id |-> id, threw |-> FALSE,
                        sent |-> <<Resp(404, <<"json", FALSE, "product not found!">>)>>]
            /\ UNCHANGED products
       ELSE /\ products' = Remove(products, id)
            /\ last' = [req |-> NoReq, op |-> "deleteProduct", id |-> id, threw |-> FALSE,
                        sent |-> <<Resp(200, <<"json", TRUE, "the product is deleted!">>)>>]
    /\ UNCHANGED <<users, seq, categories, orderItems, orders, co, dl>>

\* ------------------------------ featured, GET /products/get/featured/:count
\* the path parameter is a string
CountInputs == {<<"0">>, <<"1">>, <<"2">>, <<"a">>}

\* the ids in S in ascending order (documents come back in insertion order)
RECURSIVE Ascending(_)
Ascending(S) ==
    IF S = {} THEN <<>>
    ELSE LET m == CHOOSE x \in S : \A y \in S : x <= y
         IN <<m>> \o Ascending(S \ {m})

\* (mutant of Limit: a limit of 0 returns nothing)
LimitZeroNone(xs, n) == SubSeq(xs, 1, IF n < Len(xs) THEN n ELSE Len(xs))
\* .limit(n): the first n documents; 0 means no limit
Limit(xs, n) ==
    IF n = 0 THEN xs ELSE SubSeq(xs, 1, IF n < Len(xs) THEN n ELSE Len(xs))

\* Product.find({isFeatured: true}).limit(+count); a count that is not a
\* number makes the query reject
Featured(count) ==
    /\ LET n == ToNumber(count)
           found == Ascending({p \in DOMAIN products : products[p].isFeatured})
       IN IF n.nan
          THEN last' = [req |-> NoReq, op |-> "featured", id |-> 0, threw |-> TRUE, sent |-> <<>>]
          ELSE last' = [req |-> NoReq, op |-> "featured", id |-> n.v, threw |-> FALSE,
                        sent |-> <<Resp(200, <<"products", Limit(found, n.v)>>)>>]
    /\ UNCHANGED <<users, seq, categories, products, orderItems, orders, co, dl>>

\* ------------------------------------------------ counts, GET /get/count
\* Model.countDocuments() resolves with the number of documents; the
\* handler takes a falsy count, 0 included, for a failure
CountAnswer(op, n) ==
    [req |-> NoReq, op |-> op, id |-> 0, threw |-> FALSE,
     sent |-> <<IF n = 0 THEN Resp(500, <<"json", FALSE>>) ELSE Resp(200, <<"count", n>>)>>]

CountOrders ==
    /\ last' = CountAnswer("countOrders", Cardinality(DOMAIN orders))
    /\ UNCHANGED <<users, seq, categories, products, orderItems, orders, co, dl>>

CountProducts ==
    /\ last' = CountAnswer("countProducts", Cardinality(DOMAIN products))
    /\ UNCHANGED <<users, seq, categories, products, orderItems, orders, co, dl>>

CountUsers ==
    /\ last' = CountAnswer("countUsers", Cardinality(DOMAIN users))
    /\ UNCHANGED <<users, seq, categories, products, orderItems, orders, co, dl>>

\* -------------------------------------------------------- lookups by id
\* GET /products/:id: Product.findById(id).populate('category').  A
\* malformed id rejects; no document is answered 500 {success: false}.
GetProduct(id) ==
    /\ IF ~isValidObjectId(id)
       THEN last' = [req |-> NoReq, op |-> "getProduct", id |-> id, threw |-> TRUE, sent |-> <<>>]
       ELSE IF id \notin DOMAIN products
       THEN last' = [req |-> NoReq, op |-> "getProduct", id |-> id, threw |-> FALSE,
                     sent |-> <<Resp(500, <<"json", FALSE>>)>>]
       ELSE last' = [req |-> NoReq, op |-> "getProduct", id |-> id, threw |-> FALSE,
                     sent |-> <<Resp(200, <<"product", id>>)>>]
    /\ UNCHANGED <<users, seq, categories, products, orderItems, orders, co, dl>>

\* GET /categories/:id: for no document the handler answers 500 without
\* returning and then sends again, which throws
GetCategory(id) ==
    /\ IF ~isValidObjectId(id)
       THEN last' = [req |-> NoReq, op |-> "getCategory", id |-> id, threw |-> TRUE, sent |-> <<>>]
       ELSE IF id \notin DOMAIN categories
       THEN last' = [req |-> NoReq, op |-> "getCategory", id |-> id, threw |-> TRUE,
                     sent |-> <<Resp(500, <<"json", "message",
                        "The caterogy with the given ID was not found">>)>>]
       ELSE last' = [req |-> NoReq, op |-> "getCategory", id |-> id, threw |-> FALSE,
                     sent |-> <<Resp(200, <<"category", id>>)>>]
    /\ UNCHANGED <<users, seq, categories, products, orderItems, orders, co, dl>>

\* GET /orders/:id: the same shape, with the body {success: false}
GetOrder(id) ==
    /\ IF ~isValidObjectId(id)
       THEN last' = [req |-> NoReq, op |-> "getOrder", id |-> id, threw |-> TRUE, sent |-> <<>>]
       ELSE IF id \notin DOMAIN orders
       THEN last' = [req |-> NoReq, op |-> "getOrder", id |-> id, threw |-> TRUE,
                     sent |-> <<Resp(500, <<"json", FALSE>>)>>]
       ELSE last' = [req |-> NoReq, op |-> "getOrder", id |-> id, threw |-> FALSE,
                     sent |-> <<Resp(200, <<"order", id>>)>>]
    /\ UNCHANGED <<users, seq, categories, products, orderItems, orders, co, dl>>

\* DELETE /categories/:id
DeleteCategory(id) ==
    /\ IF ~isValidObjectId(id)
       THEN /\ last' = [req |-> NoReq, op |-> "deleteCategory", id |-> id, threw |-> FALSE,
                        sent |-> <<Resp(400, <<"json", FALSE, "error">>)>>]
            /\ UNCHANGED categories
       ELSE IF id \notin DOMAIN categories
       THEN /\ last' = [req |-> NoReq, op |-> "deleteCategory", id |-> id, threw |-> FALSE,
                        sent |-> <<Resp(404, <<"json", FALSE, "category not found!">>)>>]
            /\ UNCHANGED categories
       ELSE /\ categories' = Remove(categories, id)
            /\ last' = [req |-> NoReq, op |-> "deleteCategory", id |-> id, threw |-> FALSE,
                        sent |-> <<Resp(200, <<"json", TRUE, "the category is deleted!">>)>>]
    /\ UNCHANGED <<users, seq, products, orderItems, orders, co, dl>>

\* ------------------------------------------------------ user directory
Emails == {"a@x", "b@x"}
Passwords == {"pw1", "pw2"}
Salts == {"s1", "s2"}
UserIdInputs == 0..(MaxUser + 1)

\* bcrypt.hashSync(password, 10): a salted one-way hash, a fresh salt per
\* call; the digest is opaque to everything but compareSync
HashSync(password, salt) == <<"$2a$10", salt, password>>
\* (mutant of CompareSync: every password verifies)
CompareSyncAny(password, hash) == TRUE
CompareSync(password, hash) == hash[3] = password

\* a registration body: {email, password, isAdmin}
UserBody(email, password, isAdmin) ==
    [email |-> email, password |-> password, isAdmin |-> isAdmin]
UserBodies == {UserBody(e, p, a) : e \in Emails, p \in Passwords, a \in BOOLEAN}

\* .select('-passwordHash'): the document without its passwordHash field
SelectNoHash(user) == [f \in (DOMAIN user) \ {"passwordHash"} |-> user[f]]

\* the isAdmin value POST /users/register stores: isAdmin: req.body.isAdmin
RegisterIsAdmin(body) == body.isAdmin

\* what POST /users/register and POST /users send back: res.send(user),
\* the saved document as it is
SentUser(user) == user

\* (mutant of UserSchemaAccepts: no unique index on email)
UserSchemaAcceptsAny(user) == TRUE
\* the User schema: email is the unique login identifier, so the save of a
\* user whose email is already stored rejects (duplicate key)
UserSchemaAccepts(user) == \A u \in DOMAIN users : users[u].email # user.email

\* POST /users/register: new User({... isAdmin: req.body.isAdmin ...}),
\* save, res.send(user).  A rejected save throws out of the handler: nothing
\* is sent.
Register(body, salt) ==
    /\ seq.users < MaxUser
    /\ LET id == seq.users + 1
           user == [email |-> body.email,
                    passwordHash |-> HashSync(body.password, salt),
                    isAdmin |-> RegisterIsAdmin(body)]
       IN  IF ~UserSchemaAccepts(user)
           THEN /\ last' = [req |-> NoReq, op |-> "register", id |-> 0, threw |-> TRUE,
                            sent |-> <<>>]
                /\ UNCHANGED <<users, seq>>
           ELSE /\ users' = Put(users, id, user)
                /\ seq' = [seq EXCEPT !.users = id]
                /\ last' = [req |-> NoReq, op |-> "register", id |-> id, threw |-> FALSE,
                            sent |-> <<Resp(200, <<"user", SentUser(user)>>)>>]
    /\ UNCHANGED <<categories, products, orderItems, orders, co, dl>>

\* POST /users: the same with the password read from req.body.passwordHash
AdminCreate(body, salt) ==
    /\ seq.users < MaxUser
    /\ LET id == seq.users + 1
           user == [email |-> body.email,
                    passwordHash |-> HashSync(body.password, salt),
                    isAdmin |-> body.isAdmin]
       IN  IF ~UserSchemaAccepts(user)
           THEN /\ last' = [req |-> NoReq, op |-> "adminCreate", id |-> 0, threw |-> TRUE,
                            sent |-> <<>>]
                /\ UNCHANGED <<users, seq>>
           ELSE /\ users' = Put(users, id, user)
                /\ seq' = [seq EXCEPT !.users = id]
                /\ last' = [req |-> NoReq, op |-> "adminCreate", id |-> id, threw |-> FALSE,
                            sent |-> <<Resp(200, <<"user", SentUser(user)>>)>>]
    /\ UNCHANGED <<categories, products, orderItems, orders, co, dl>>

\* GET /users: User.find().select('-passwordHash')
ListUsers ==
    /\ last' = [req |-> NoReq, op |-> "list", id |-> 0, threw |-> FALSE,
                sent |-> <<Resp(200, <<"users",
                             [u \in DOMAIN users |-> SelectNoHash(users[u])]>>)>>]
    /\ UNCHANGED <<users, seq, categories, products, orderItems, orders, co, dl>>

\* GET /users/:id: User.findById(id).select('-passwordHash').  A malformed
\* id rejects.  For no document the handler answers 500 without returning
\* and then sends again, which throws.
GetUser(id) ==
    /\ IF ~isValidObjectId(id)
       THEN last' = [req |-> NoReq, op |-> "getById", id |-> id, threw |-> TRUE, sent |-> <<>>]
       ELSE IF id \notin DOMAIN users
       THEN last' = [req |-> NoReq, op |-> "getById", id |-> id, threw |-> TRUE,
                     sent |-> <<Resp(500, <<"json", "message",
                        "The caterogy with the given ID was not found">>)>>]
       ELSE last' = [req |-> NoReq, op |-> "getById", id |-> id, threw |-> FALSE,
                     sent |-> <<Resp(200, <<"user", SelectNoHash(users[id])>>)>>]
    /\ UNCHANGED <<users, seq, categories, products, orderItems, orders, co, dl>>

\* jwt.sign({userId, isAdmin}, secret, {expiresIn: '1d'})
Sign(userId, isAdmin) ==
    [kind |-> "jwt", userId |-> userId, isAdmin |-> isAdmin,
     sig |-> "secret", expired |-> FALSE]

\* User.findOne({email}): a document with that email, the first in id order
FindOneByEmail(email) ==
    LET hits == {u \in DOMAIN users : users[u].email = email}
    IN IF hits = {} THEN 0 ELSE CHOOSE u \in hits : \A v \in hits : u <= v

\* POST /users/login
Login(email, password) ==
    /\ LET u == FindOneByEmail(email) IN
       IF u = 0
       THEN last' = [req |-> NoReq, op |-> "login", id |-> 0, threw |-> FALSE,
                     sent |-> <<Resp(400, <<"text", "The user not found">>)>>]
       ELSE IF CompareSync(password, users[u].passwordHash)
       THEN last' = [req |-> NoReq, op |-> "login", id |-> u, threw |-> FALSE,
                     sent |-> <<Resp(200, <<"login", users[u].email,
                                            Sign(u, users[u].isAdmin)>>)>>]
       ELSE last' = [req |-> NoReq, op |-> "login", id |-> u, threw |-> FALSE,
                     sent |-> <<Resp(400, <<"text", "Password is wrong">>)>>]
    /\ UNCHANGED <<users, seq, categories, products, orderItems, orders, co, dl>>

\* DELETE /users/:id
DeleteUser(id) ==
    /\ IF ~isValidObjectId(id)
       THEN /\ last' = [req |-> NoReq, op |-> "deleteUser", id |-> id, threw |-> FALSE,
                        sent |-> <<Resp(400, <<"json", FALSE, "error">>)>>]
            /\ UNCHANGED users
       ELSE IF id \notin DOMAIN users
       THEN /\ last' = [req |-> NoReq, op |-> "deleteUser", id |-> id, threw |-> FALSE,
                        sent |-> <<Resp(404, <<"json", FALSE, "user not found!">>)>>]
            /\ UNCHANGED users
       ELSE /\ users' = Remove(users, id)
            /\ last' = [req |-> NoReq, op |-> "deleteUser", id |-> id, threw |-> FALSE,
                        sent |-> <<Resp(200, <<"json", TRUE, "the user is deleted!">>)>>]
    /\ UNCHANGED <<seq, categories, products, orderItems, orders, co, dl>>

\* ---------------------------------------------------------- access gate
\* the endpoints of the route files
Endpoints == {"POST /users/register", "POST /users/login", "GET /users",
              "GET /users/:id", "POST /users", "DELETE /users/:id",
              "POST /products", "PUT /products/:id", "DELETE /products/:id",
              "PUT /orders/:id", "GET /orders/get/totalsales"}

\* the gate's path configuration: the public allow-list, the endpoints open
\* to every authenticated caller, and the admin-only ones
Access(ep) ==
    IF ep \in {"POST /users/register", "POST /users/login"} THEN "public"
    ELSE IF ep \in {"PUT /orders/:id", "GET /orders/get/totalsales"} THEN "authenticated"
    ELSE "admin"

\* bearer tokens a request may carry
Tokens == {NoToken, Malformed, Sign(1, FALSE), Sign(1, TRUE),
           [Sign(1, TRUE) EXCEPT !.expired = TRUE],
           [Sign(1, TRUE) EXCEPT !.sig = "forged"]}
Requests == [ep : Endpoints, token : Tokens]

\* present, well-formed, signed with the server's secret, not expired
TokenValid(token) == token.kind = "jwt" /\ token.sig = "secret" /\ ~token.expired

\* authJwt(): passes a public path, and otherwise a valid token whose admin
\* flag the endpoint's access level allows; fails the request as
\* unauthorized in every other case
authJwt(req) ==
    IF Access(req.ep) = "public" THEN "next"
    ELSE IF ~TokenValid(req.token) THEN "UnauthorizedError"
    ELSE IF Access(req.ep) = "admin" /\ ~req.token.isAdmin THEN "UnauthorizedError"
    ELSE "next"

\* errorHandler: the unauthorized answer
Unauthorized == Resp(401, <<"json", "message", "The user is not authorized">>)

\* (mutants of Stack: the routers mounted before the gate; the gate not
\* mounted at all)
StackRoutesFirst == <<"routes", "authJwt", "errorHandler">>
StackNoGate == <<"errorHandler", "routes">>

\* app.use(...) in mounting order: the gate, its error handler, the routers
Stack == <<"authJwt", "errorHandler", "routes">>

\* a request reaches the routers iff every gate mounted before them passes it
ReachesRoutes(req) ==
    \A k \in 1..Len(Stack) :
        (Stack[k] = "authJwt" /\ \E j \in (k + 1)..Len(Stack) : Stack[j] = "routes")
            => authJwt(req) = "next"

\* the gate's failure is answered by errorHandler; no router runs
Reject(req) ==
    /\ ~ReachesRoutes(req)
    /\ last' = [req |-> req, op |-> "errorHandler", id |-> 0, threw |-> FALSE, sent |-> <<Unauthorized>>]
    /\ UNCHANGED <<users, seq, categories, products, orderItems, orders, co, dl>>

\* the inputs the gate is exercised with
GateUserBodies == {UserBody("a@x", "pw1", a) : a \in BOOLEAN}
GateProductBodies == {ProductBody(JNum(5), 1, 1, FALSE)}
GateIds == {1}

\* app.use(`${api}/...`, router): a request that got past the gate is
\* served by the handler its endpoint names
Routed(req, ep) == req.ep = ep /\ ReachesRoutes(req)

RouteUsers(req) ==
    \/ Routed(req, "POST /users/register") /\ \E body \in GateUserBodies : Register(body, "s1")
    \/ Routed(req, "POST /users/login") /\ Login("a@x", "pw1")
    \/ Routed(req, "GET /users") /\ ListUsers
    \/ Routed(req, "GET /users/:id") /\ \E id \in GateIds : GetUser(id)
    \/ Routed(req, "POST /users") /\ \E body \in GateUserBodies : AdminCreate(body, "s1")
    \/ Routed(req, "DELETE /users/:id") /\ \E id \in GateIds : DeleteUser(id)

RouteProducts(req) ==
    \/ Routed(req, "POST /products") /\
          \E body \in GateProductBodies : CreateProduct(body, "image/png")
    \/ Routed(req, "PUT /products/:id") /\
          \E id \in GateIds, body \in GateProductBodies : UpdateProduct(id, body)
    \/ Routed(req, "DELETE /products/:id") /\ \E id \in GateIds : DeleteProduct(id)

RouteOrders(req) ==
    \/ Routed(req, "PUT /orders/:id") /\ \E id \in GateIds : UpdateOrderStatus(id, "Shipped")
    \/ Routed(req, "GET /orders/get/totalsales") /\ TotalSales

\* one request through the application
Serve(req) ==
    \/ Reject(req)
    \/ RouteUsers(req)
    \/ RouteProducts(req)
    \/ RouteOrders(req)

\* ------------------------------------------------------ specifications
Init ==
    /\ users = Empty
    /\ seq = [users |-> 0, products |-> MaxProduct]
    /\ categories = [c \in {1} |-> [name |-> "c"]]
    /\ products = InitCatalog
    /\ orderItems = Empty
    /\ orders = Empty
    /\ co = [r \in CoReqs |-> IdleCo]
    /\ dl = [d \in DelReqs |-> IdleDl]
    /\ last = NoLast

\* requests are numbered in the order they arrive
NextCo(r) == \A q \in CoReqs : q < r => co[q].pc # "idle"
NextDl(d) == \A q \in DelReqs : q < d => dl[q].pc # "idle"

\* One createOrder's steps
CreateSteps(r) ==
    \/ \E i \in 1..MaxCart : ItemSaveOk(r, i)
    \/ \E i \in 1..MaxCart : ItemSaveFail(r, i)
    \/ \E i \in 1..MaxCart : PriceResolve(r, i)
    \/ \E i \in 1..MaxCart : PriceResolveMissing(r, i)
    \/ OrderSaveOk(r)
    \/ OrderSaveFail(r)

\* Pricing: a createOrder of any cart against concurrent catalog writes
Next ==
    \/ \E cart \in Carts : CreateOrderStart(1, cart, "Pending")
    \/ CreateSteps(1)
    \/ \E id \in ProductIds, body \in PriceBodies : UpdateProduct(id, body)
    \/ \E id \in ProductIds : DeleteProduct(id)

Spec == Init /\ [][Next]_vars

\* Order lifecycle: concurrent createOrder and deleteOrder requests, status
\* updates and the sales aggregate, over a fixed catalog
\* (a line may name a product id that identifies no Product)
LifecycleCarts == UNION {[1..n -> {Line(1, 2), Line(MaxProduct + 1, 1)}] : n \in 0..MaxCart}

NextOrders ==
    \/ \E r \in CoReqs, cart \in LifecycleCarts :
          NextCo(r) /\ CreateOrderStart(r, cart, "Pending")
    \/ \E r \in CoReqs : CreateSteps(r)
    \/ \E d \in DelReqs, id \in OrderIdInputs : NextDl(d) /\ DeleteOrderStart(d, id)
    \/ \E d \in DelReqs, i \in 1..MaxCart : ItemRemove(d, i)
    \/ \E d \in DelReqs, i \in 1..MaxCart : ItemRemoveFail(d, i)
    \/ \E id \in OrderIdInputs : UpdateOrderStatus(id, "Shipped")
    \/ TotalSales

SpecOrders == Init /\ [][NextOrders]_vars

\* Cascade: deleteOrder over any stored Order, its OrderItems present or
\* already gone (the store is an external collaborator: its content is an
\* input of the handler)
CascadeItems == {<<1, 1>>, <<1, 2>>}
InitCascade ==
    /\ users = Empty
    /\ seq = [users |-> 0, products |-> MaxProduct]
    /\ categories = [c \in {1} |-> [name |-> "c"]]
    /\ products = InitCatalog
    /\ \E present \in SUBSET CascadeItems, n \in 0..2 :
          /\ orderItems = [k \in present \cup {<<2, 1>>} |-> [quantity |-> 1, product |-> 1]]
          /\ orders = [o \in {1, 2} |->
                         [orderItems |-> IF o = 1 THEN SubSeq(<<<<1, 1>>, <<1, 2>>>>, 1, n)
                                         ELSE <<<<2, 1>>>>,
                          totalPrice |-> Num(10 * Len(IF o = 1 THEN SubSeq(<<<<1, 1>>, <<1, 2>>>>, 1, n)
                                                      ELSE <<<<2, 1>>>>)),
                          status |-> "Pending"]]
    /\ co = [r \in CoReqs |-> IdleCo]
    /\ dl = [d \in DelReqs |-> IdleDl]
    /\ last = NoLast

NextCascade ==
    \/ \E d \in DelReqs, id \in OrderIdInputs : NextDl(d) /\ DeleteOrderStart(d, id)
    \/ \E d \in DelReqs, i \in 1..MaxCart : ItemRemove(d, i)
    \/ \E d \in DelReqs, i \in 1..MaxCart : ItemRemoveFail(d, i)

SpecCascade == InitCascade /\ [][NextCascade]_vars

\* User directory: registration, administrative creation, reads, login
NextUsers ==
    \/ \E body \in UserBodies, salt \in Salts : Register(body, salt)
    \/ \E body \in UserBodies, salt \in Salts : AdminCreate(body, salt)
    \/ ListUsers
    \/ \E id \in UserIdInputs : GetUser(id)
    \/ \E e \in Emails, p \in Passwords : Login(e, p)
    \/ \E id \in UserIdInputs : DeleteUser(id)

SpecUsers == Init /\ [][NextUsers]_vars

\* Catalog: product creation, update and deletion over every body
ProductBodies ==
    {ProductBody(p, c, n, FALSE) : p \in {JNum(5), JNum(10)}, c \in CategoryInputs, n \in StockInputs}

NextProducts ==
    \/ \E body \in ProductBodies, file \in FileInputs : CreateProduct(body, file)
    \/ \E id \in ProductIdInputs, body \in ProductBodies : UpdateProduct(id, body)
    \/ \E id \in ProductIdInputs : DeleteProduct(id)

SpecProducts == Init /\ [][NextProducts]_vars

\* Lookups by id, over stores whose documents come and go
\* (0: malformed id; 1, 2: ids a collection may hold; 3: never allocated)
LookupIds == 0..3
LookupBodies == {ProductBody(JNum(5), c, 1, FALSE) : c \in CategoryInputs}
InitLookup ==
    /\ users = Empty
    /\ seq = [users |-> 0, products |-> MaxProduct]
    /\ categories = [c \in {1} |-> [name |-> "c"]]
    /\ products = InitCatalog
    /\ orderItems = Empty
    /\ orders = [o \in {1} |-> [orderItems |-> <<>>, totalPrice |-> Num(0), status |-> "Pending"]]
    /\ co = [r \in CoReqs |-> IdleCo]
    /\ dl = [d \in DelReqs |-> IdleDl]
    /\ last = NoLast

NextLookup ==
    \/ \E id \in LookupIds : GetProduct(id)
    \/ \E id \in LookupIds : GetCategory(id)
    \/ \E id \in LookupIds : GetUser(id)
    \/ \E id \in LookupIds : GetOrder(id)
    \/ \E id \in LookupIds, body \in LookupBodies : UpdateProduct(id, body)
    \/ \E body \in GateUserBodies : Register(body, "s1")
    \/ \E id \in GateIds : DeleteUser(id)
    \/ \E id \in GateIds : DeleteProduct(id)
    \/ \E id \in GateIds : DeleteCategory(id)
    \/ \E id \in GateIds : DeleteOrderStart(1, id)

SpecLookup == InitLookup /\ [][NextLookup]_vars

\* Featured products: the flag is set and cleared by product writes
FeaturedBodies == {ProductBody(JNum(5), 1, 1, f) : f \in BOOLEAN}

NextFeatured ==
    \/ \E count \in CountInputs : Featured(count)
    \/ \E body \in FeaturedBodies : CreateProduct(body, "image/png")
    \/ \E id \in ProductIdInputs, body \in FeaturedBodies : UpdateProduct(id, body)
    \/ \E id \in ProductIdInputs : DeleteProduct(id)

SpecFeatured == Init /\ [][NextFeatured]_vars

\* Counts, over collections that grow and shrink
CountCarts == {<<>>, <<Line(1, 1)>>}

NextCounts ==
    \/ CountOrders
    \/ CountProducts
    \/ CountUsers
    \/ \E body \in GateUserBodies : Register(body, "s1")
    \/ \E id \in GateIds : DeleteUser(id)
    \/ \E body \in GateProductBodies : CreateProduct(body, "image/png")
    \/ \E id \in ProductIds : DeleteProduct(id)
    \/ \E cart \in CountCarts : CreateOrderStart(1, cart, "Pending")
    \/ CreateSteps(1)
    \/ \E id \in GateIds : DeleteOrderStart(1, id)
    \/ \E i \in 1..MaxCart : ItemRemove(1, i)
    \/ \E i \in 1..MaxCart : ItemRemoveFail(1, i)

SpecCounts == Init /\ [][NextCounts]_vars

\* Access gate: every request goes through the gate before the routers
NextGate == \E req \in Requests : Serve(req)

SpecGate == Init /\ [][NextGate]_vars

\* ================================================================ claims
RECURSIVE CartTotal(_, _)
CartTotal(cart, unit) ==
    IF cart = <<>> THEN 0
    ELSE CartTotal(SubSeq(cart, 1, Len(cart) - 1), unit)
         + cart[Len(cart)].quantity * unit[Len(cart)]

PricesHeld(h, p) == IF p \in DOMAIN h THEN {x.v : x \in {y \in h[p] : ~y.nan}} ELSE {}

\* C1: the Order persisted by createOrder has totalPrice = the sum over the
\* cart lines of quantity x the referenced product's price, each price being
\* one the product held while the order was being placed (the price itself
\* when no product write interleaves)
C1_TotalIsSumOfLines ==
    \A r \in CoReqs : co[r].pc = "done" =>
        LET c == co[r]
            n == Len(c.cart)
            held == UNION {PricesHeld(c.hist, c.cart[i].product) : i \in 1..n}
        IN  /\ r \in DOMAIN orders
            /\ ~orders[r].totalPrice.nan
            /\ \E unit \in [1..n -> held] :
                  /\ \A i \in 1..n : unit[i] \in PricesHeld(c.hist, c.cart[i].product)
                  /\ orders[r].totalPrice.v = CartTotal(c.cart, unit)

\* the example of the specification: (price 10, qty 2), (price 5, qty 1) => 25
C1_Witness ==
    \E r \in CoReqs :
        /\ co[r].pc = "done"
        /\ co[r].cart = <<Line(1, 2), Line(2, 1)>>
        /\ co[r].hist[1] = {Num(10)} /\ co[r].hist[2] = {Num(5)}
        /\ r \in DOMAIN orders /\ orders[r].totalPrice = Num(25)

\* C2: a persisted Order keeps the totalPrice computed (and returned) at
\* creation, whatever product updates and deletions follow
C2_TotalIsSnapshot ==
    \A r \in CoReqs : co[r].pc = "done" =>
        /\ r \in DOMAIN orders
        /\ orders[r].totalPrice = co[r].sent[1].body[3].totalPrice

\* an order exists and a product of its cart has since been repriced to a
\* price it never had while the order was placed, or deleted
C2_Witness ==
    \E r \in CoReqs :
        /\ co[r].pc = "done" /\ r \in DOMAIN orders
        /\ last.op \in {"updateProduct", "deleteProduct"}
        /\ \E i \in 1..Len(co[r].cart) :
              LET p == co[r].cart[i].product IN
              \/ p \notin DOMAIN products
              \/ ToNumber(products[p].price) \notin co[r].hist[p]

\* C10: when the save of an OrderItem fails, no Order is persisted for the
\* request and the caller is sent a creation-failure response
C10_ItemFailureReported ==
    \A r \in CoReqs : co[r].error = "itemSave" =>
        /\ r \notin DOMAIN orders
        /\ \E k \in 1..Len(co[r].sent) : co[r].sent[k].status >= 400

\* C3: totalSales called when the store holds no Order answers 200 with a
\* total of 0 and does not throw
C3_TotalSalesOfNoOrders ==
    [][(TotalSales /\ DOMAIN orders = {}) =>
          /\ ~last'.threw
          /\ last'.sent = <<Resp(200, <<"totalSales", 0>>)>>]_vars

\* C8 as written: deleteOrder for any id that identifies no stored Order
\* (a malformed id included) answers 404 with success false and changes no
\* Order and no OrderItem
C8_MissingOrderIs404 ==
    [][\A d \in DelReqs, id \in OrderIdInputs :
          (DeleteOrderStart(d, id) /\ id \notin DOMAIN orders) =>
             /\ dl'[d].pc = "done"
             /\ dl'[d].sent = <<Resp(404, <<"json", FALSE, "order not found!">>)>>
             /\ orders' = orders /\ orderItems' = orderItems]_vars

\* C8 amended: a well-formed id that identifies no stored Order is answered
\* 404 with success false, a malformed id 400 with success false; in both
\* cases the handler ends there and no Order or OrderItem changes
C8_MissingOrderIs404Or400 ==
    [][\A d \in DelReqs, id \in OrderIdInputs :
          (DeleteOrderStart(d, id) /\ id \notin DOMAIN orders) =>
             /\ dl'[d].pc = "done"
             /\ dl'[d].removing = {}
             /\ dl'[d].sent = <<IF isValidObjectId(id)
                                THEN Resp(404, <<"json", FALSE, "order not found!">>)
                                ELSE Resp(400, <<"json", FALSE, "error">>)>>
             /\ orders' = orders /\ orderItems' = orderItems]_vars

\* a deleteOrder of a well-formed unknown id was answered 404 while Orders
\* and OrderItems are stored
C8_Witness ==
    \E d \in DelReqs :
        /\ dl[d].pc = "done" /\ ~dl[d].found /\ isValidObjectId(dl[d].id)
        /\ dl[d].sent = <<Resp(404, <<"json", FALSE, "order not found!">>)>>
        /\ DOMAIN orders # {} /\ DOMAIN orderItems # {}

\* C9: a deleteOrder that found its Order and whose item removals were not
\* rejected by the store answers 200 success, and then neither the Order nor
\* any OrderItem it referenced is stored, also when a referenced OrderItem
\* was already gone
C9_CascadeRemovesAll ==
    \A d \in DelReqs :
        (dl[d].found /\ dl[d].removing = {} /\ ~dl[d].storeError) =>
            /\ dl[d].sent = <<Resp(200, <<"json", TRUE, "the order is deleted!">>)>>
            /\ dl[d].id \notin DOMAIN orders
            /\ \A i \in 1..Len(dl[d].ids) : dl[d].ids[i] \notin DOMAIN orderItems

\* an order with two items was deleted with success, one of the items was
\* removed by it and the other was already gone
C9_Witness ==
    \E d \in DelReqs :
        /\ dl[d].found /\ dl[d].pc = "done" /\ Len(dl[d].ids) = 2
        /\ Cardinality(dl[d].logged) = 1
        /\ dl[d].sent = <<Resp(200, <<"json", TRUE, "the order is deleted!">>)>>

\* C4: every user created through register is stored with the admin flag
\* false, whatever the body carries
C4_RegisterNeverAdmin ==
    (last.op = "register" /\ last.id \in DOMAIN users) => ~users[last.id].isAdmin

\* the fields a response body shows of user documents
BodyShowsHash(body) ==
    \/ body[1] = "user" /\ "passwordHash" \in DOMAIN body[2]
    \/ body[1] = "users" /\ \E u \in DOMAIN body[2] : "passwordHash" \in DOMAIN body[2][u]
    \/ body[1] = "login" /\ "passwordHash" \in DOMAIN body[3]

\* C7: no response of list, getById, register, adminCreate or login contains
\* the user's password hash
C7_NoHashInResponses ==
    last.op \in {"list", "getById", "register", "adminCreate", "login"} =>
        \A k \in 1..Len(last.sent) : ~BodyShowsHash(last.sent[k].body)

Stores == <<users, seq, categories, products, orderItems, orders, co, dl>>

\* C5: a request outside the public allow-list that carries no token, or a
\* malformed, expired or wrongly signed one, is answered unauthorized and no
\* handler runs for it: no collection changes, no handler responds
C5_UnauthenticatedNeverRouted ==
    [][\A req \in Requests :
          (Access(req.ep) # "public" /\ ~TokenValid(req.token) /\ Serve(req)) =>
             /\ last'.op = "errorHandler" /\ last'.req = req
             /\ last'.sent = <<Resp(401, <<"json", "message", "The user is not authorized">>)>>
             /\ Stores' = Stores]_vars

\* such a request was rejected while the directory holds users
C5_Witness ==
    /\ last.op = "errorHandler"
    /\ Access(last.req.ep) # "public"
    /\ ~TokenValid(last.req.token)
    /\ last.sent[1].status = 401
    /\ DOMAIN users # {}

\* the endpoints reserved to administrators
AdminOnly == {"POST /products", "PUT /products/:id", "DELETE /products/:id",
              "POST /users", "DELETE /users/:id", "GET /users"}

\* C6: a request to an admin-only endpoint with a valid token whose admin
\* flag is false never performs the endpoint's store read or write: it is
\* answered unauthorized by the gate
C6_NonAdminNeverRouted ==
    [][\A req \in Requests :
          (req.ep \in AdminOnly /\ TokenValid(req.token) /\ ~req.token.isAdmin
                                  /\ Serve(req)) =>
             /\ last'.op = "errorHandler" /\ last'.req = req
             /\ last'.sent[1].status = 401
             /\ Stores' = Stores]_vars

\* a valid non-admin token was turned away from an admin-only endpoint while
\* users and products are stored
C6_Witness ==
    /\ last.op = "errorHandler"
    /\ last.req.ep \in AdminOnly
    /\ TokenValid(last.req.token) /\ ~last.req.token.isAdmin
    /\ DOMAIN users # {} /\ DOMAIN products # {}

\* C11: when a cart line references a product that does not exist at the
\* time its price is resolved, no Order is persisted for the request, the
\* line is not priced (as zero or otherwise), and the caller is sent an
\* error response
C11_MissingProductReported ==
    \A r \in CoReqs : co[r].error = "price" =>
        /\ r \notin DOMAIN orders
        /\ co[r].totalPrice = Num(0) /\ co[r].pc # "ordering"
        /\ \E k \in 1..Len(co[r].sent) : co[r].sent[k].status >= 400

\* C12: every request whose handler has ended has been sent a response,
\* also when a store operation inside the handler rejected
C12_EveryRequestAnswered ==
    /\ \A r \in CoReqs : co[r].pc \in {"done", "rejected"} => co[r].sent # <<>>
    /\ \A d \in DelReqs : dl[d].pc \in {"done", "failed"} => dl[d].sent # <<>>
    /\ last.op # "none" => last.sent # <<>>

\* C13: a product create or update whose body references a category that
\* does not exist is answered 400 'Invalid Category' and creates or modifies
\* no Product
C13_InvalidCategoryRejected ==
    [][/\ \A body \in ProductBodies, file \in FileInputs :
             (CreateProduct(body, file) /\ body.category \notin DOMAIN categories) =>
                /\ last'.sent = <<Resp(400, <<"text", "Invalid Category">>)>>
                /\ ~last'.threw
                /\ products' = products
       /\ \A id \in ProductIdInputs, body \in ProductBodies :
             (UpdateProduct(id, body) /\ body.category \notin DOMAIN categories) =>
                /\ last'.sent = <<Resp(400, <<"text", "Invalid Category">>)>>
                /\ ~last'.threw
                /\ products' = products]_vars

\* C14: updateOrderStatus replaces the status of the addressed Order and
\* nothing else: its other fields, every other Order and every OrderItem
\* are unchanged; for an id that identifies no Order it answers not-found
\* (404) and changes nothing
C14_StatusOnly ==
    [][\A id \in OrderIdInputs :
          UpdateOrderStatus(id, "Shipped") =>
             /\ orderItems' = orderItems
             /\ DOMAIN orders' = DOMAIN orders
             /\ \A o \in DOMAIN orders :
                   /\ orders'[o].orderItems = orders[o].orderItems
                   /\ orders'[o].totalPrice = orders[o].totalPrice
                   /\ orders'[o].status = IF o = id THEN "Shipped" ELSE orders[o].status
             /\ id \notin DOMAIN orders =>
                   /\ ~last'.threw
                   /\ last'.sent = <<Resp(404, <<"text", "the order cannot be updated!">>)>>]_vars

\* the totals computed by the createOrder requests in rs
RECURSIVE CreatedTotal(_)
CreatedTotal(rs) ==
    IF rs = {} THEN 0
    ELSE LET r == CHOOSE x \in rs : TRUE
         IN co[r].totalPrice.v + CreatedTotal(rs \ {r})

\* C15: whenever at least one Order is stored, totalSales answers the sum of
\* the totalPrice of exactly the Orders in the store: the totals computed
\* when they were created, deleted Orders left out, status updates without
\* effect
C15_TotalSalesIsSum ==
    [][(TotalSales /\ DOMAIN orders # {}) =>
          /\ ~last'.threw
          /\ last'.sent = <<Resp(200, <<"totalSales", CreatedTotal(DOMAIN orders)>>)>>]_vars

\* totalSales answered 20 after two Orders were created, one of them was
\* deleted and the status of the other was updated
C15_Witness ==
    /\ last.op = "totalSales"
    /\ last.sent = <<Resp(200, <<"totalSales", 20>>)>>
    /\ \A r \in CoReqs : co[r].pc = "done" /\ co[r].totalPrice.v > 0
    /\ \E d \in DelReqs : dl[d].found /\ dl[d].pc = "done"
    /\ \E o \in DOMAIN orders : orders[o].status = "Shipped"

\* C16: a createOrder with an empty cart is not rejected for being empty:
\* it goes straight to saving the Order (only the store can fail it), and
\* the Order it persists and returns has no order items and totalPrice 0
C16_EmptyCartPersisted ==
    \A r \in CoReqs : (co[r].pc # "idle" /\ co[r].cart = <<>>) =>
        /\ co[r].pc \in {"ordering", "done", "rejected"}
        /\ co[r].error \in {"none", "orderSave"}
        /\ co[r].totalPrice = Num(0)
        /\ co[r].pc = "done" =>
              /\ r \in DOMAIN orders
              /\ orders[r].orderItems = <<>>
              /\ orders[r].totalPrice = Num(0)
              /\ co[r].sent = <<Resp(200, <<"order", r, orders[r]>>)>>

\* an Order was persisted and returned for an empty cart
C16_Witness ==
    \E r \in CoReqs :
        /\ co[r].pc = "done" /\ co[r].cart = <<>>
        /\ r \in DOMAIN orders /\ orders[r].totalPrice = Num(0)
        /\ Len(co[r].sent) = 1 /\ co[r].sent[1].status = 200

\* the stored users holding an email
Holders(email) == {u \in DOMAIN users : users[u].email = email}

\* C17: login answers exactly once; it issues a token only for a stored user
\* with the submitted email whose stored hash is the hash of the submitted
\* password, and the token carries that user's id and admin flag; an
\* unknown email is answered 'The user not found', a password that verifies
\* against no holder of the email the distinct 'Password is wrong', and
\* neither error carries a token
C17_LoginTokenOnlyOnMatch ==
    [][\A e \in Emails, p \in Passwords :
          Login(e, p) =>
             LET sent == last'.sent[1] IN
             /\ Len(last'.sent) = 1 /\ ~last'.threw
             /\ sent.body[1] = "login" =>
                   /\ sent.status = 200
                   /\ \E u \in Holders(e), salt \in Salts :
                         /\ users[u].passwordHash = HashSync(p, salt)
                         /\ sent.body[3] = Sign(u, users[u].isAdmin)
             /\ sent.status # 200 => sent.body[1] = "text"
             /\ Holders(e) = {} => sent = Resp(400, <<"text", "The user not found">>)
             /\ (Holders(e) # {} /\ \A u \in Holders(e), salt \in Salts :
                                       users[u].passwordHash # HashSync(p, salt))
                   => sent = Resp(400, <<"text", "Password is wrong">>)]_vars

\* a login with a stored email and a wrong password was refused while the
\* other email is unknown to the directory
C17_Witness ==
    /\ last.op = "login" /\ last.id \in DOMAIN users
    /\ last.sent = <<Resp(400, <<"text", "Password is wrong">>)>>
    /\ \E e \in Emails : Holders(e) = {}

C19_StockInRange ==
    \A p \in DOMAIN products :
        products[p].countInStock >= 0 /\ products[p].countInStock <= 255

\* C20: a lookup by id (product, category, user, order) of an entity that
\* does not exist is answered once, with status 404
C20_MissingIs404 ==
    [][\A id \in LookupIds :
          (\/ GetProduct(id) /\ id \notin DOMAIN products
           \/ GetCategory(id) /\ id \notin DOMAIN categories
           \/ GetUser(id) /\ id \notin DOMAIN users
           \/ GetOrder(id) /\ id \notin DOMAIN orders) =>
             /\ Len(last'.sent) = 1
             /\ last'.sent[1].status = 404
             /\ ~last'.threw]_vars

C21_WitnessUnlimited ==
    /\ last.op = "featured" /\ last.id = 0 /\ ~last.threw
    /\ Len(last.sent[1].body[2]) = 3

\* C22: when createOrder persists its Order, every cart line's OrderItem
\* has been saved and every line's price has been resolved, and the Order
\* references exactly the OrderItems the request created, one per cart
\* line, in cart order
C22_OrderAfterItems ==
    [][\A r \in CoReqs :
          OrderSaveOk(r) =>
             /\ co[r].saving = {} /\ co[r].pricing = {}
             /\ Len(orders'[r].orderItems) = Len(co[r].cart)
             /\ \A i \in 1..Len(co[r].cart) :
                   LET k == orders'[r].orderItems[i] IN
                   /\ k = <<r, i>>
                   /\ k \in DOMAIN orderItems
                   /\ orderItems[k] = [quantity |-> co[r].cart[i].quantity,
                                       product |-> co[r].cart[i].product]]_vars

\* an Order was persisted for a cart of two different lines
C22_Witness ==
    \E r \in CoReqs :
        /\ co[r].pc = "done" /\ r \in DOMAIN orders
        /\ Len(co[r].cart) = 2 /\ co[r].cart[1] # co[r].cart[2]
        /\ Len(orders[r].orderItems) = 2

\* C23: the OrderItems a createOrder persisted are not rolled back when the
\* request fails (a later item save, a price resolution or the Order save):
\* in the failing step and ever after they stay in the store, no Order is
\* persisted for the request and no Order references them
C23_NoRollback ==
    [][\A r \in CoReqs :
          co'[r].pc = "rejected" =>
             /\ r \notin DOMAIN orders'
             /\ \A k \in DOMAIN orderItems :
                   k[1] = r =>
                      /\ k \in DOMAIN orderItems'
                      /\ \A o \in DOMAIN orders' :
                            \A j \in 1..Len(orders'[o].orderItems) :
                               orders'[o].orderItems[j] # k]_vars

\* a createOrder failed at the Order save with both its OrderItems stored,
\* while another Order has been deleted with its items
C23_Witness ==
    \E r \in CoReqs :
        /\ co[r].pc = "rejected" /\ co[r].error = "orderSave"
        /\ Len(co[r].ids) = 2
        /\ \A i \in 1..2 : co[r].ids[i] \in DOMAIN orderItems
        /\ \E d \in DelReqs : dl[d].found /\ dl[d].pc = "done"

\* C24 as written: a deleteOrder that found its Order has removed it before
\* any OrderItem removal, and once every removal has been attempted the
\* caller has been told the order was deleted, also when the store rejected
\* one of the removals
C24_StoreErrorTolerated ==
    \A d \in DelReqs : dl[d].found =>
        /\ dl[d].id \notin DOMAIN orders
        /\ dl[d].removing = {} =>
              dl[d].sent = <<Resp(200, <<"json", TRUE, "the order is deleted!">>)>>

\* C24 amended: the Order is removed before any OrderItem removal; a
\* removal the store rejects does not stop the other removals, but the
\* caller is then answered 400 with success false, exactly once; the caller
\* is told the order was deleted only when no removal was rejected
C24_StoreErrorReported ==
    \A d \in DelReqs : dl[d].found =>
        /\ dl[d].id \notin DOMAIN orders
        /\ Len(dl[d].sent) <= 1
        /\ dl[d].storeError =>
              /\ dl[d].pc = "failed"
              /\ dl[d].sent = <<Resp(400, <<"json", FALSE, "error">>)>>
        /\ (dl[d].removing = {} /\ ~dl[d].storeError) =>
              /\ dl[d].pc = "done"
              /\ dl[d].sent[1].status = 200

\* the removal of one of an Order's two OrderItems was rejected by the
\* store: it is still stored, the other one was removed all the same, and
\* the caller was answered 400
C24_Witness ==
    \E d \in DelReqs :
        /\ dl[d].found /\ dl[d].storeError /\ dl[d].removing = {}
        /\ Len(dl[d].ids) = 2 /\ dl[d].logged = {}
        /\ Cardinality({i \in 1..2 : dl[d].ids[i] \in DOMAIN orderItems}) = 1
        /\ dl[d].sent[1].status = 400

\* C25: no OrderItem is referenced by two different Orders, and no Order
\* references the same OrderItem twice
C25_ItemsOwnedOnce ==
    /\ \A o, q \in DOMAIN orders :
          o # q => \A i \in 1..Len(orders[o].orderItems), j \in 1..Len(orders[q].orderItems) :
                      orders[o].orderItems[i] # orders[q].orderItems[j]
    /\ \A o \in DOMAIN orders :
          \A i, j \in 1..Len(orders[o].orderItems) :
             i # j => orders[o].orderItems[i] # orders[o].orderItems[j]

\* two Orders of two lines each are stored
C25_Witness ==
    /\ Cardinality(DOMAIN orders) = 2
    /\ \A o \in DOMAIN orders : Len(orders[o].orderItems) = 2

\* C28: every OrderItem id referenced by a stored Order identifies an
\* OrderItem present in the store
C28_NoDanglingItem ==
    \A o \in DOMAIN orders :
        \A i \in 1..Len(orders[o].orderItems) :
            orders[o].orderItems[i] \in DOMAIN orderItems

\* an Order with items is stored, its status was updated, and another Order
\* has been deleted together with its items
C28_Witness ==
    /\ \E o \in DOMAIN orders :
          orders[o].orderItems # <<>> /\ orders[o].status = "Shipped"
    /\ \E d \in DelReqs :
          /\ dl[d].found /\ dl[d].pc = "done" /\ dl[d].ids # <<>>
          /\ \A i \in 1..Len(dl[d].ids) : dl[d].ids[i] \notin DOMAIN orderItems

\* C26: each count endpoint answers 200 with the number of documents in
\* its collection, 0 for an empty collection included
C26_CountIsSize ==
    [][/\ CountOrders =>
             /\ last'.sent[1].status = 200
             /\ last'.sent[1].body[2] = Cardinality(DOMAIN orders)
       /\ CountProducts =>
             /\ last'.sent[1].status = 200
             /\ last'.sent[1].body[2] = Cardinality(DOMAIN products)
       /\ CountUsers =>
             /\ last'.sent[1].status = 200
             /\ last'.sent[1].body[2] = Cardinality(DOMAIN users)]_vars

C29_SameProductSamePrice ==
    \A r \in CoReqs : co[r].pc = "done" =>
        LET c == co[r]
            n == Len(c.cart)
            ps == {c.cart[i].product : i \in 1..n}
            held == UNION {PricesHeld(c.hist, p) : p \in ps}
        IN  /\ r \in DOMAIN orders
            /\ \E unit \in [ps -> held] :
                  /\ \A p \in ps : unit[p] \in PricesHeld(c.hist, p)
                  /\ orders[r].totalPrice.v =
                        CartTotal(c.cart, [i \in 1..n |-> unit[c.cart[i].product]])

\* C30: of two deleteOrder requests for the same order id that have both
\* completed, at most one found the Order; when one found it and no item
\* removal was rejected by the store, that one answered success, the other
\* answered not-found, and neither the Order nor any OrderItem it
\* referenced is stored
C30_OneDeleteWins ==
    \A d, q \in DelReqs :
        (/\ d # q
         /\ dl[d].id = dl[q].id
         /\ dl[d].pc \in {"done", "failed"} /\ dl[d].removing = {}
         /\ dl[q].pc \in {"done", "failed"} /\ dl[q].removing = {}
         /\ dl[d].found) =>
            /\ ~dl[q].found
            /\ Len(dl[q].sent) = 1 /\ dl[q].sent[1].status = 404
            /\ dl[d].id \notin DOMAIN orders
            /\ ~dl[d].storeError =>
                  /\ Len(dl[d].sent) = 1 /\ dl[d].sent[1].status = 200
                  /\ \A i \in 1..Len(dl[d].ids) : dl[d].ids[i] \notin DOMAIN orderItems

\* both requests named the same order with two items; one removed it and
\* its items and answered success, the other was answered not-found
C30_Witness ==
    \E d, q \in DelReqs :
        /\ d # q /\ dl[d].id = dl[q].id
        /\ dl[d].pc = "done" /\ dl[q].pc = "done"
        /\ dl[d].found /\ Len(dl[d].ids) = 2
        /\ Len(dl[d].sent) = 1 /\ dl[d].sent[1].status = 200
        /\ Len(dl[q].sent) = 1 /\ dl[q].sent[1].status = 404
====
